---- MODULE Spec2Model ----
(***************************************************************************)
(* Model of streamlit_app.py: the flashcard store (one JSON file per       *)
(* category), the simplified SM-2 scheduler and the review session.        *)
(*                                                                         *)
(* ease_factor is a float in the source; here it is kept in hundredths     *)
(* (2.5 is 250, the floor 1.3 is 130), so the update                       *)
(*   ef + (0.1 - (5-q)*(0.08 + (5-q)*0.02))                                *)
(* is 10 - (5-q)*(8 + (5-q)*2) hundredths.  Dates are day numbers.         *)
(***************************************************************************)
EXTENDS Integers, Sequences, FiniteSets, TLC

VARIABLES
    card,       \* scheduler: the Card object handed to sm2_update
    before,     \* scheduler: that object's fields before the latest call
    grades,     \* scheduler: the quality arguments of the calls made so far
    start,      \* scheduler: the object's fields before the first call
    file,             \* data/<selected category>.json
    legacy,           \* flashcards.json at the root: TRUE when it exists
    shown,            \* place, in the list as loaded, of the card tab1 presented in the latest run
    current_card_id,  \* st.session_state.current_card_id
    show_answer,      \* st.session_state.show_answer
    edit_id,          \* st.session_state.edit_id
    pending,          \* TRUE when the latest run ended in st.rerun()
    gen               \* generator: the arguments and the result of auto_generate_cards_from_text

smVars == <<card, before, grades, start>>
appVars == <<file, legacy, shown, current_card_id, show_answer, edit_id, pending>>
genVars == <<gen>>
vars == <<card, before, grades, start,
          file, legacy, shown, current_card_id, show_answer, edit_id, pending, gen>>

---------------------------------------------------------------------------
(* Bounds of the model *)

MaxEvents == 3          \* grading events applied to one card
MaxLoadedInterval == 2  \* largest "interval" of a persisted record
MaxLoadedReps == 3      \* largest "repetitions" of a persisted record

---------------------------------------------------------------------------
(* Program constants *)

Today == 0              \* datetime.date.today(), as a day number
EmptyDate == -1         \* a falsy date ("" or null in the JSON)
DefaultEase == 250      \* ease_factor: float = 2.5
EaseFloor == 130        \* if ef < 1.3: ef = 1.3
UnknownQuality == 3     \* q_map.get(quality, 3)
SecondInterval == 6     \* elif card.repetitions == 2: card.interval = 6
NoneId == 0             \* None: no card pinned, no card being edited

Max(a, b) == IF a >= b THEN a ELSE b

\* math.ceil(n / 100) for an integer n >= 0
CeilHundredths(n) == (n + 99) \div 100

---------------------------------------------------------------------------
(* Card *)

\* Card.__init__: a falsy created_at or due_date becomes today
Card(id, question, answer, created_at, interval, repetitions, ease_factor, due_date, history) ==
    [id |-> id, question |-> question, answer |-> answer,
     created_at |-> IF created_at = EmptyDate THEN Today ELSE created_at,
     interval |-> interval, repetitions |-> repetitions,
     ease_factor |-> ease_factor,
     due_date |-> IF due_date = EmptyDate THEN Today ELSE due_date,
     history |-> history]

\* Card(id, question, answer): every other parameter at its default
NewCard(id, question, answer) ==
    Card(id, question, answer, EmptyDate, 0, 0, DefaultEase, EmptyDate, <<>>)

\* dict.get(key, default) on a JSON object
Get(c, key, default) == IF key \in DOMAIN c THEN c[key] ELSE default

\* the Card that load_cards builds from one persisted object c; uuid is the
\* value of str(uuid.uuid4()) for this record
LoadRecord(c, uuid) ==
    Card(Get(c, "id", uuid), Get(c, "question", ""), Get(c, "answer", ""),
         Get(c, "created_at", Today), Get(c, "interval", 0),
         Get(c, "repetitions", 0), Get(c, "ease_factor", DefaultEase),
         Get(c, "due_date", Today), Get(c, "history", <<>>))

---------------------------------------------------------------------------
(* SM-2 *)

\* q_map = {1: 2, 2: 4, 3: 5}; q = q_map.get(quality, 3)
QMapUnknownFails(quality) ==
    CASE quality = 1 -> 2
      [] quality = 2 -> 4
      [] quality = 3 -> 5
      [] OTHER -> 2

QMap(quality) ==
    CASE quality = 1 -> 2
      [] quality = 2 -> 4
      [] quality = 3 -> 5
      [] OTHER -> UnknownQuality

SM2RepetitionsNoReset(c, q) == c.repetitions + 1

SM2RepetitionsResetBelowFour(c, q) == IF q < 4 THEN 0 ELSE c.repetitions + 1

\* card.repetitions after the if q < 3 / else
SM2Repetitions(c, q) == IF q < 3 THEN 0 ELSE c.repetitions + 1

SM2IntervalFloor(c, q) ==
    IF q < 3 THEN 1
    ELSE IF c.repetitions + 1 = 1 THEN 1
    ELSE IF c.repetitions + 1 = 2 THEN SecondInterval
    ELSE (c.interval * c.ease_factor) \div 100

\* card.interval after the if q < 3 / else; the product uses the ease_factor
\* the card has before this call updates it
SM2Interval(c, q) ==
    IF q < 3 THEN 1
    ELSE IF c.repetitions + 1 = 1 THEN 1
    ELSE IF c.repetitions + 1 = 2 THEN SecondInterval
    ELSE CeilHundredths(c.interval * c.ease_factor)

SM2EaseNoFloor(ef, q) == ef + (10 - (5 - q) * (8 + (5 - q) * 2))

SM2EaseCapped(ef, q) ==
    LET e == ef + (10 - (5 - q) * (8 + (5 - q) * 2))
    IN  IF e < EaseFloor THEN EaseFloor ELSE IF e > 300 THEN 300 ELSE e

\* ef = ef + (0.1 - (5 - q) * (0.08 + (5 - q) * 0.02)); if ef < 1.3: ef = 1.3
SM2Ease(ef, q) ==
    LET e == ef + (10 - (5 - q) * (8 + (5 - q) * 2))
    IN  IF e < EaseFloor THEN EaseFloor ELSE e

\* {"date": today.isoformat(), "q": q, "user_grade": quality}
HistoryRecord(q, quality) == [date |-> Today, q |-> q, user_grade |-> quality]

\* sm2_update(card, quality): the card's fields after the call
sm2_update(c, quality) ==
    LET q == QMap(quality)
        interval == SM2Interval(c, q)
    IN  [c EXCEPT !.repetitions = SM2Repetitions(c, q),
                  !.interval = interval,
                  !.ease_factor = SM2Ease(c.ease_factor, q),
                  !.due_date = Today + interval,
                  !.history = Append(c.history, HistoryRecord(q, quality))]

---------------------------------------------------------------------------
(* Scheduler specification: sm2_update applied repeatedly to one card,     *)
(* which is either fresh or built by load_cards from a persisted record.   *)

Grades == 0 .. 4            \* 1, 2, 3 and two unrecognised grades
LoadedEase == {100, 130, 145, 250, 400}

PersistedRecords ==
    { [id |-> 1, question |-> "Q", answer |-> "A",
       interval |-> i, repetitions |-> r, ease_factor |-> e] :
        i \in 0 .. MaxLoadedInterval, r \in 0 .. MaxLoadedReps, e \in LoadedEase }

SchedulerInputs ==
    {NewCard(1, "Q", "A")} \cup { LoadRecord(c, 2) : c \in PersistedRecords }

\* the application is not running in the scheduler specification
AppIdle ==
    /\ file = [kind |-> "absent", items |-> <<>>]
    /\ legacy = FALSE
    /\ shown = 0
    /\ current_card_id = NoneId
    /\ show_answer = FALSE
    /\ edit_id = NoneId
    /\ pending = FALSE

\* no text has been handed to the generator
GeneratorIdle ==
    gen = [lines |-> <<>>, sentences |-> <<>>, max_cards |-> 1, method |-> "cloze",
           qa |-> <<>>, cards |-> <<>>, done |-> FALSE]

InitSM2 ==
    /\ card \in SchedulerInputs
    /\ before = card
    /\ start = card
    /\ grades = <<>>
    /\ AppIdle
    /\ GeneratorIdle

Grade(g) ==
    /\ Len(grades) < MaxEvents
    /\ before' = card
    /\ grades' = Append(grades, g)
    /\ card' = sm2_update(card, g)
    /\ UNCHANGED start
    /\ UNCHANGED <<appVars, genVars>>

NextSM2 == \E g \in Grades : Grade(g)

SpecSM2 == InitSM2 /\ [][NextSM2]_vars

---------------------------------------------------------------------------
(* The card store.  A category file is absent, unreadable as a JSON array  *)
(* ("garbage"), or an array whose items are objects or other JSON values.  *)

JObject(fields) == [type |-> "object", value |-> fields]
JNumber == [type |-> "number", value |-> <<>>]

AbsentFile == [kind |-> "absent", items |-> <<>>]
GarbageFile == [kind |-> "garbage", items |-> <<>>]
ArrayFile(items) == [kind |-> "array", items |-> items]

\* os.path.exists(get_storage_file(category))
FileExists(f) == f.kind # "absent"

Range(seq) == { seq[i] : i \in 1 .. Len(seq) }

\* str(uuid.uuid4()): an id that no file, object or session key holds; only
\* its being different from every id in `used` is observable
Uuid4(used) ==
    CHOOSE n \in 1 .. Cardinality(used) + 1 :
        n \notin used /\ \A m \in 1 .. n - 1 : m \in used

\* the ids written in a file
FileIds(f) ==
    { f.items[i].value.id : i \in { k \in 1 .. Len(f.items) :
          f.items[k].type = "object" /\ "id" \in DOMAIN f.items[k].value } }

CardIds(cs) == { cs[i].id : i \in 1 .. Len(cs) }

\* load_cards, the loop over data: one Card per item, each with its own uuid4()
RECURSIVE LoadItems(_, _)
LoadItems(items, used) ==
    IF items = <<>> THEN <<>>
    ELSE LET u == Uuid4(used)
         IN  <<LoadRecord(items[1].value, u)>> \o LoadItems(Tail(items), used \cup {u})

\* load_cards raised and reported st.error: unreadable JSON, or an item that
\* has no .get (c.get raises AttributeError inside the try)
LoadFails(f) ==
    \/ f.kind = "garbage"
    \/ f.kind = "array" /\ \E i \in 1 .. Len(f.items) : f.items[i].type # "object"

\* load_cards(category): [] for a missing file and for any exception
load_cards(f, used) ==
    IF ~FileExists(f) THEN <<>>
    ELSE IF LoadFails(f) THEN <<>>
    ELSE LoadItems(f.items, used)

to_dictNoHistory(c) ==
    [id |-> c.id, question |-> c.question, answer |-> c.answer,
     created_at |-> c.created_at, interval |-> c.interval,
     repetitions |-> c.repetitions, ease_factor |-> c.ease_factor,
     due_date |-> c.due_date]

\* Card.to_dict
to_dict(c) ==
    [id |-> c.id, question |-> c.question, answer |-> c.answer,
     created_at |-> c.created_at, interval |-> c.interval,
     repetitions |-> c.repetitions, ease_factor |-> c.ease_factor,
     due_date |-> c.due_date, history |-> c.history]

\* save_cards(cards, category): the file after a write that succeeds
save_cards(cs) == ArrayFile([i \in 1 .. Len(cs) |-> JObject(to_dict(cs[i]))])

---------------------------------------------------------------------------
(* One run of the script.  Streamlit runs the whole script for every user  *)
(* event; only the files and st.session_state survive from run to run.     *)

MaxCards == 2       \* cards a category holds before add, import, ... stop
MaxReviews == 2     \* history records a category holds before grading stops

\* x.question.lower() as a sort key: the order of the texts the model uses
TextRank(t) ==
    CASE t = "" -> 0
      [] t = "a" -> 1
      [] t = "b" -> 2
      [] OTHER -> 3

\* the key of filtered.sort(key=...) for the "Trier par" choice
SortKey(c, view) ==
    CASE view = "Question" -> TextRank(c.question)
      [] view = "Creation" -> c.created_at
      [] OTHER -> c.ease_factor

\* c placed behind every element whose key is not larger (list.sort is stable)
RECURSIVE InsertByKey(_, _, _)
InsertByKey(c, sorted, view) ==
    IF sorted = <<>> THEN <<c>>
    ELSE IF SortKey(sorted[1], view) <= SortKey(c, view)
         THEN <<sorted[1]>> \o InsertByKey(c, Tail(sorted), view)
         ELSE <<c>> \o sorted

RECURSIVE SortByKey(_, _)
SortByKey(cs, view) ==
    IF cs = <<>> THEN <<>>
    ELSE InsertByKey(cs[Len(cs)], SortByKey(SubSeq(cs, 1, Len(cs) - 1), view), view)

\* the "Trier par" choices; the selectbox can be set before any button is
\* pressed, so every run takes one of them
Views == {"Question", "Creation", "Ease factor"}

\* tab2, lines 471-479: `cards` after filtered.sort(...); with no search text
\* filtered is the list `cards` itself and is sorted in place
Tab2Sort(cs, view) == SortByKey(cs, view)

\* get_available_categories() is not empty: a category is selected
Selected == FileExists(file) \/ legacy

\* every id the file or the session holds
UsedIds == FileIds(file) \cup {current_card_id, edit_id}

\* line 397: cards = load_cards(selected_category) if selected_category else []
Loaded == IF Selected THEN load_cards(file, UsedIds) ELSE <<>>

\* next((i for c in cs if c.id == id), None): 0 for None
FirstWithId(cs, id) ==
    IF \E i \in 1 .. Len(cs) : cs[i].id = id
    THEN CHOOSE i \in 1 .. Len(cs) :
            cs[i].id = id /\ \A j \in 1 .. i - 1 : cs[j].id # id
    ELSE 0

\* tab1, lines 405-422: the pinned card is looked up by its id; when there is
\* none, choose_next_card draws cs[choice] (every card has a positive
\* weight), pins its id and hides the answer.  idx is the place of
\* current_card in the list as loaded, 0 when no card is presented
Tab1(cs, pin, show, choice) ==
    IF cs = <<>>
    THEN [pin |-> pin, show |-> show, idx |-> 0]
    ELSE LET found == IF pin # NoneId THEN FirstWithId(cs, pin) ELSE 0
             idx == IF found # 0 THEN found ELSE choice
         IN  [pin |-> cs[idx].id,
              show |-> IF found # 0 THEN show ELSE FALSE,
              idx |-> idx]

WeightEaseFirst(c) ==
    Max(10, c.ease_factor - 100) * (IF Len(c.history) = 0 THEN 12 ELSE 10)

\* choose_next_card, lines 255-262: the weight of a card, in thousandths:
\* max(0.1, 4.0 - ease_factor), times 1.2 when the history is empty
Weight(c) ==
    Max(10, 400 - c.ease_factor) * (IF Len(c.history) = 0 THEN 12 ELSE 10)

\* random.choices(cards, weights): any card of positive weight can be drawn
Choices(cs) == 1 .. Max(1, Len(cs))

\* tab3, lines 523-545: an edit_id that matches no card is dropped
Tab3EditId(cs) ==
    IF Selected /\ edit_id # NoneId /\ FirstWithId(cs, edit_id) = 0
    THEN NoneId ELSE edit_id

\* the rest of a run in which no button acts, from line 397 to the end; f is
\* the category file at line 397
RunToEnd(f, choice) ==
    LET cs == IF Selected THEN load_cards(f, UsedIds) ELSE <<>>
        t == Tab1(cs, current_card_id, show_answer, choice)
    IN  /\ choice \in Choices(cs)
        /\ shown' = t.idx
        /\ current_card_id' = t.pin
        /\ show_answer' = t.show
        /\ edit_id' = Tab3EditId(cs)
        /\ pending' = FALSE

\* a handler that ends in st.rerun() after tab1 has run on the list cs
RerunAfterTab1(cs, choice) ==
    LET t == Tab1(cs, current_card_id, show_answer, choice)
    IN  /\ choice \in Choices(cs)
        /\ shown' = t.idx
        /\ current_card_id' = t.pin
        /\ show_answer' = t.show
        /\ pending' = TRUE

\* a run with no button pressed: the first run of a session, the run that
\* st.rerun() starts, or any widget interaction
Rerun ==
    /\ \E choice \in 1 .. MaxCards : RunToEnd(file, choice)
    /\ UNCHANGED <<file, legacy>>
    /\ UNCHANGED <<smVars, genVars>>

ClickShowSaves ==
    /\ ~pending
    /\ shown # 0
    /\ ~show_answer
    /\ LET cs == Loaded
       IN  /\ \E choice \in Choices(cs) : RerunAfterTab1(cs, choice)
           /\ file' = save_cards(cs)
    /\ UNCHANGED <<legacy, edit_id>>
    /\ UNCHANGED <<smVars, genVars>>

\* "Montrer la reponse", lines 428-431: drawn when tab1 leaves show_answer
\* unset; sets it and calls st.rerun()
ClickShow ==
    /\ ~pending
    /\ shown # 0
    /\ ~show_answer
    /\ LET cs == Loaded
       IN  \E choice \in Choices(cs) :
             LET t == Tab1(cs, current_card_id, show_answer, choice)
             IN  /\ ~t.show
                 /\ shown' = t.idx
                 /\ current_card_id' = t.pin
                 /\ show_answer' = TRUE
                 /\ pending' = TRUE
    /\ UNCHANGED <<file, legacy, edit_id>>
    /\ UNCHANGED <<smVars, genVars>>

\* history records in the whole list
RECURSIVE Reviews(_)
Reviews(cs) == IF cs = <<>> THEN 0 ELSE Len(cs[1].history) + Reviews(Tail(cs))

ClickGradeBeforeReveal(g) ==
    /\ ~pending
    /\ shown # 0
    /\ LET cs == Loaded
           t == Tab1(cs, current_card_id, show_answer, 1)
       IN  /\ Reviews(cs) < MaxReviews
           /\ file' = save_cards([cs EXCEPT ![t.idx] = sm2_update(@, g)])
           /\ shown' = t.idx
           /\ current_card_id' = NoneId
           /\ show_answer' = FALSE
           /\ pending' = TRUE
    /\ UNCHANGED <<legacy, edit_id>>
    /\ UNCHANGED <<smVars, genVars>>

\* one of the three grade buttons, lines 436-454; they are drawn only when
\* the pinned card was found again and show_answer is set
ClickGrade(g) ==
    /\ ~pending
    /\ shown # 0
    /\ show_answer
    /\ LET cs == Loaded
           t == Tab1(cs, current_card_id, show_answer, 1)
       IN  /\ t.show
           /\ Reviews(cs) < MaxReviews
           /\ file' = save_cards([cs EXCEPT ![t.idx] = sm2_update(@, g)])
           /\ shown' = t.idx
           /\ current_card_id' = NoneId
           /\ show_answer' = FALSE
           /\ pending' = TRUE
    /\ UNCHANGED <<legacy, edit_id>>
    /\ UNCHANGED <<smVars, genVars>>

\* what a category file holds after save_cards raised, lines 126-130: open
\* failed and the file is as it was, or json.dump stopped part-way and the
\* file holds a truncated document
FailedWrite(f) == {f, GarbageFile}

\* a grade button in a run whose save_cards raises: the exception is caught
\* and reported, the handler goes on to clear the pin and to rerun
ClickGradeWriteFails(g) ==
    /\ ~pending
    /\ shown # 0
    /\ show_answer
    /\ LET cs == Loaded
           t == Tab1(cs, current_card_id, show_answer, 1)
       IN  /\ t.show
           /\ Reviews(cs) < MaxReviews
           /\ file' \in FailedWrite(file)
           /\ shown' = t.idx
           /\ current_card_id' = NoneId
           /\ show_answer' = FALSE
           /\ pending' = TRUE
    /\ UNCHANGED <<legacy, edit_id>>
    /\ UNCHANGED <<smVars, genVars>>

InputTexts == {"", "a", "b"}

\* "Ajouter la carte", lines 512-520
AddCard ==
    /\ ~pending
    /\ Selected
    /\ LET cs == Loaded
       IN  /\ Len(cs) < MaxCards
           /\ \E new_q \in InputTexts, new_a \in {"", "b"}, choice \in 1 .. MaxCards :
                IF new_q = "" \/ new_a = ""
                THEN RunToEnd(file, choice) /\ UNCHANGED file
                ELSE \E view \in Views :
                       /\ file' = save_cards(Append(Tab2Sort(cs, view),
                                     NewCard(Uuid4(UsedIds \cup CardIds(cs)), new_q, new_a)))
                       /\ RerunAfterTab1(cs, choice)
                       /\ UNCHANGED edit_id
    /\ UNCHANGED legacy
    /\ UNCHANGED <<smVars, genVars>>

\* the Card the import handler builds from one uploaded object, lines 370-380
ImportRecord(c, uuid) ==
    Card(Get(c, "id", uuid), c.question, c.answer,
         Get(c, "created_at", Today), Get(c, "interval", 0),
         Get(c, "repetitions", 0), Get(c, "ease_factor", DefaultEase),
         Get(c, "due_date", Today), Get(c, "history", <<>>))

\* lines 368-382: one card per item that has question and answer
RECURSIVE ImportItems(_, _)
ImportItems(items, used) ==
    IF items = <<>> THEN <<>>
    ELSE LET c == items[1].value
             u == Uuid4(used)
         IN  IF "question" \in DOMAIN c /\ "answer" \in DOMAIN c
             THEN <<ImportRecord(c, u)>> \o ImportItems(Tail(items), used \cup {u})
             ELSE ImportItems(Tail(items), used \cup {u})

\* json.load(uploaded_json) raises, or `"question" in c` raises on an item
\* that is not a container: the except branch reports it and nothing is saved
ImportRaises(data) ==
    \/ data.kind # "array"
    \/ \E i \in 1 .. Len(data.items) : data.items[i].type # "object"

UploadedJson ==
    { GarbageFile,
      ArrayFile(<<>>),
      ArrayFile(<<JObject([question |-> "a", answer |-> "b"])>>),
      ArrayFile(<<JObject([question |-> "b"]), JObject([id |-> 1, question |-> "a", answer |-> "b"])>>),
      ArrayFile(<<JObject([question |-> "a", answer |-> "b"]), JNumber>>) }

ImportReplaces(f, data, used) ==
    IF ImportRaises(data) THEN f
    ELSE save_cards(ImportItems(data.items, used))

\* "Importer JSON maintenant", lines 360-386: the file the handler leaves
ImportResult(f, data, used) ==
    IF ImportRaises(data) THEN f
    ELSE LET old == load_cards(f, used)
         IN  save_cards(old \o ImportItems(data.items, used \cup CardIds(old)))

\* the import button; the run then goes on to line 397 and loads again
ImportJson ==
    /\ ~pending
    /\ Selected
    /\ \E data \in UploadedJson, choice \in 1 .. MaxCards :
         LET f == ImportResult(file, data, UsedIds)
         IN  /\ Len(f.items) <= MaxCards
             /\ file' = f
             /\ RunToEnd(f, choice)
    /\ UNCHANGED legacy
    /\ UNCHANGED <<smVars, genVars>>

\* the cards auto_generate_cards_from_text returns for the uploaded or pasted
\* text: Card(uuid4, question, answer) each
Generated(used) == { <<>>, <<NewCard(Uuid4(used), "a", "b")>> }

\* "Generer des flashcards ...", lines 320-332 and 335-347
GenerateCards ==
    /\ ~pending
    /\ Selected
    /\ \E new_cards \in Generated(UsedIds), choice \in 1 .. MaxCards :
         LET old == load_cards(file, UsedIds \cup CardIds(new_cards))
             f == save_cards(old \o new_cards)
         IN  /\ Len(f.items) <= MaxCards
             /\ file' = f
             /\ RunToEnd(f, choice)
    /\ UNCHANGED legacy
    /\ UNCHANGED <<smVars, genVars>>

\* "Creer la categorie", lines 292-302; selected_category was computed
\* before the file is written
CreateCategory ==
    /\ ~pending
    /\ ~FileExists(file)
    /\ file' = ArrayFile(<<>>)
    /\ RunToEnd(file, 1)
    /\ UNCHANGED legacy
    /\ UNCHANGED <<smVars, genVars>>

\* tab2 draws one row of buttons per card of filtered, keyed by the card's
\* id; a button pressed in the page of the latest run acts in this run on
\* the first card drawn with that key.  "Editer", lines 489-491
ClickEdit ==
    /\ ~pending
    /\ Selected
    /\ LET cs == Loaded
       IN  \E id \in FileIds(file), choice \in 1 .. MaxCards :
             /\ FirstWithId(cs, id) # 0
             /\ edit_id' = id
             /\ RerunAfterTab1(cs, choice)
    /\ UNCHANGED <<file, legacy>>
    /\ UNCHANGED <<smVars, genVars>>

ClickDuplicateCopiesCard ==
    /\ ~pending
    /\ Selected
    /\ LET cs == Loaded
       IN  /\ Len(cs) < MaxCards
           /\ \E id \in FileIds(file), choice \in 1 .. MaxCards, view \in Views :
                LET sorted == Tab2Sort(cs, view)
                    i == FirstWithId(sorted, id)
                IN  /\ i # 0
                    /\ file' = save_cards(Append(sorted,
                                  [sorted[i] EXCEPT !.id = Uuid4(UsedIds \cup CardIds(cs))]))
                    /\ RerunAfterTab1(cs, choice)
    /\ UNCHANGED <<legacy, edit_id>>
    /\ UNCHANGED <<smVars, genVars>>

\* "Dupliquer", lines 492-497
ClickDuplicate ==
    /\ ~pending
    /\ Selected
    /\ LET cs == Loaded
       IN  /\ Len(cs) < MaxCards
           /\ \E id \in FileIds(file), choice \in 1 .. MaxCards, view \in Views :
                LET sorted == Tab2Sort(cs, view)
                    i == FirstWithId(sorted, id)
                IN  /\ i # 0
                    /\ file' = save_cards(Append(sorted,
                                  NewCard(Uuid4(UsedIds \cup CardIds(cs)),
                                          sorted[i].question, sorted[i].answer)))
                    /\ RerunAfterTab1(cs, choice)
    /\ UNCHANGED <<legacy, edit_id>>
    /\ UNCHANGED <<smVars, genVars>>

\* "Supprimer", lines 498-502: cards = [cc for cc in cards if cc.id != c.id]
ClickDelete ==
    /\ ~pending
    /\ Selected
    /\ LET cs == Loaded
       IN  \E id \in FileIds(file), choice \in 1 .. MaxCards, view \in Views :
             LET sorted == Tab2Sort(cs, view)
             IN  /\ FirstWithId(sorted, id) # 0
                 /\ file' = save_cards(SelectSeq(sorted, LAMBDA cc : cc.id # id))
                 /\ RerunAfterTab1(cs, choice)
    /\ UNCHANGED <<legacy, edit_id>>
    /\ UNCHANGED <<smVars, genVars>>

\* "Enregistrer modifications", lines 532-539; the panel is drawn when
\* edit_id names a card of the list.  The question is kept or retyped; the
\* answer and the date input are left at the values the panel shows, the
\* card's own
SaveEdit ==
    /\ ~pending
    /\ Selected
    /\ edit_id # NoneId
    /\ LET cs == Loaded
       IN  \E choice \in 1 .. MaxCards, view \in Views :
             LET sorted == Tab2Sort(cs, view)
                 i == FirstWithId(sorted, edit_id)
             IN  /\ i # 0
                 /\ \E eq \in {sorted[i].question, "b"} :
                      file' = save_cards([sorted EXCEPT ![i].question = eq,
                                                        ![i].answer = sorted[i].answer,
                                                        ![i].due_date = sorted[i].due_date])
                 /\ RerunAfterTab1(cs, choice)
                 /\ edit_id' = NoneId
    /\ UNCHANGED legacy
    /\ UNCHANGED <<smVars, genVars>>

\* "Annuler edition", lines 540-542
CancelEdit ==
    /\ ~pending
    /\ Selected
    /\ edit_id # NoneId
    /\ LET cs == Loaded
       IN  \E choice \in 1 .. MaxCards :
             /\ FirstWithId(cs, edit_id) # 0
             /\ RerunAfterTab1(cs, choice)
             /\ edit_id' = NoneId
    /\ UNCHANGED <<file, legacy>>
    /\ UNCHANGED <<smVars, genVars>>

\* get_available_categories(), lines 72-79: the category files of data/, or
\* ["default"] when there is none and flashcards.json exists
get_available_categories ==
    IF FileExists(file) THEN <<"category">>
    ELSE IF legacy THEN <<"default">>
    ELSE <<>>

\* the contents of flashcards.json when it exists
LegacyFile == ArrayFile(<<JObject([question |-> "a", answer |-> "b"])>>)

\* line 273: the condition under which the migration button is drawn
MigrationOffered == get_available_categories = <<>> /\ legacy

\* migrate_legacy_to_default(), lines 84-96: whether it reports success, and
\* data/default.json after the call
migrate_legacy_to_default ==
    IF legacy /\ get_available_categories = <<>>
    THEN [ok |-> TRUE, file |-> LegacyFile]
    ELSE [ok |-> FALSE, file |-> file]

\* "Migrer flashcards.json", lines 272-279; the run then goes on to line 397
\* with the selection made before the button acted
ClickMigrate ==
    /\ ~pending
    /\ MigrationOffered
    /\ file' = migrate_legacy_to_default.file
    /\ \E choice \in 1 .. MaxCards : RunToEnd(file, choice)
    /\ UNCHANGED legacy
    /\ UNCHANGED <<smVars, genVars>>

---------------------------------------------------------------------------
(* The application: a session opened on a data folder that holds the       *)
(* selected category's file, written by the application or put there.      *)

StoredCard(id, question) ==
    to_dict(Card(id, question, "b", Today, 0, 0, DefaultEase, Today, <<>>))

InitialFiles ==
    { AbsentFile,
      ArrayFile(<<>>),
      GarbageFile,
      ArrayFile(<<JObject(StoredCard(1, "b")), JObject(StoredCard(2, "a"))>>),
      ArrayFile(<<JObject([question |-> "b", answer |-> "b"]),
                  JObject([question |-> "a", answer |-> "b"])>>),
      ArrayFile(<<JObject(StoredCard(1, "a")), JNumber>>),
      ArrayFile(<<JObject([StoredCard(1, "a") EXCEPT !.ease_factor = EaseFloor]),
                  JObject([StoredCard(2, "b") EXCEPT !.ease_factor = 400])>>) }

SchedulerIdle ==
    /\ card = NewCard(1, "Q", "A")
    /\ before = card
    /\ start = card
    /\ grades = <<>>

Init ==
    /\ file \in InitialFiles
    /\ legacy = FALSE
    /\ shown = 0
    /\ current_card_id = NoneId
    /\ show_answer = FALSE
    /\ edit_id = NoneId
    /\ pending = TRUE
    /\ SchedulerIdle
    /\ GeneratorIdle

Next ==
    \/ Rerun
    \/ ClickShow
    \/ \E g \in 1 .. 3 : ClickGrade(g)
    \/ AddCard
    \/ ImportJson
    \/ GenerateCards
    \/ CreateCategory
    \/ ClickEdit
    \/ ClickDuplicate
    \/ ClickDelete
    \/ SaveEdit
    \/ CancelEdit

Spec == Init /\ [][Next]_vars

\* the application on a disk where the write of a grading run can fail
NextWriteFails ==
    \/ Rerun
    \/ ClickShow
    \/ \E g \in 1 .. 3 : ClickGrade(g)
    \/ \E g \in 1 .. 3 : ClickGradeWriteFails(g)
    \/ AddCard
    \/ ImportJson
    \/ GenerateCards
    \/ CreateCategory
    \/ ClickEdit
    \/ ClickDuplicate
    \/ ClickDelete
    \/ SaveEdit
    \/ CancelEdit

SpecWriteFails == Init /\ [][NextWriteFails]_vars

\* the application opened on a data folder without category files, next to
\* a flashcards.json of an earlier version.  ClickMigrate is no step of it:
\* its button is drawn under MigrationOffered, which no state satisfies
InitLegacy ==
    /\ file = AbsentFile
    /\ legacy = TRUE
    /\ shown = 0
    /\ current_card_id = NoneId
    /\ show_answer = FALSE
    /\ edit_id = NoneId
    /\ pending = TRUE
    /\ SchedulerIdle
    /\ GeneratorIdle

SpecLegacy == InitLegacy /\ [][Next]_vars

\* the application opened on an empty data folder: every card the store
\* comes to hold is made by an operation of the application
InitFresh ==
    /\ file = AbsentFile
    /\ legacy = FALSE
    /\ shown = 0
    /\ current_card_id = NoneId
    /\ show_answer = FALSE
    /\ edit_id = NoneId
    /\ pending = TRUE
    /\ SchedulerIdle
    /\ GeneratorIdle

SpecFresh == InitFresh /\ [][Next]_vars

---------------------------------------------------------------------------
(* Automatic generation.  A text is held as what the generators read of    *)
(* it: its non-empty stripped lines, each with the facts the seed test and *)
(* the length test look at, and the sentences split_into_sentences yields, *)
(* each with the word generate_cloze_from_sentence would blank, if any.    *)

MaxLines == 5       \* lines of a text
MaxSentences == 2   \* sentences of a text
MaxGenerate == 3    \* largest max_cards

SeedHeadLimit == 100    \* len(line.split(":")[0]) < 100
LongLine == 200         \* len(lines[j]) < 200
LookaheadEnd == 4       \* j < min(i + 4, len(lines))

Min(a, b) == IF a <= b THEN a ELSE b

\* a line "<left>:<right>" or a line without a colon; head is the length of
\* line.split(":")[0], len the length of the line
Line(colon, head, len, text) ==
    [colon |-> colon, head |-> head, len |-> len, text |-> text,
     left |-> <<text, "left">>, right |-> <<text, "right">>]

LineKinds ==
    { Line(TRUE, 4, 12, "term"),        \* Term: definition
      Line(FALSE, 20, 20, "plain"),     \* a short line without a colon
      Line(FALSE, 200, 200, "long"),    \* a line of 200 characters
      Line(TRUE, 100, 120, "head") }    \* a colon behind 100 characters

\* line 176: ":" in line and len(line.split(":")[0]) < 100
IsSeed(l) == l.colon /\ l.head < SeedHeadLimit

\* the while loop of lines 180-184, with i and j counted from 1: the answer
\* when the loop ends
RECURSIVE Lookahead(_, _, _, _)
Lookahead(lines, i, j, answer) ==
    IF j < Min(i + LookaheadEnd, Len(lines) + 1) /\ ~IsSeed(lines[j])
    THEN Lookahead(lines, i, j + 1,
                   IF lines[j].len < LongLine THEN Append(answer, lines[j].text)
                   ELSE answer)
    ELSE answer

\* generate_qa_from_text_by_lines, lines 172-186: the results for the lines
\* from the i-th on.  An answer is the text behind the colon followed by
\* the lines joined to it
RECURSIVE QAFrom(_, _)
QAFrom(lines, i) ==
    IF i > Len(lines) THEN <<>>
    ELSE IF IsSeed(lines[i])
         THEN <<[question |-> lines[i].left,
                 answer |-> Lookahead(lines, i, i + 1, <<lines[i].right>>)]>>
              \o QAFrom(lines, i + 1)
         ELSE QAFrom(lines, i + 1)

generate_qa_from_text_by_lines(lines) == QAFrom(lines, 1)

\* a sentence of split_into_sentences; word is the longest candidate word,
\* "" when the sentence has no word of more than 4 letters
SentenceKinds == { [text |-> "sentence", word |-> "photosynthesis"],
                   [text |-> "short words", word |-> ""] }

\* generate_cloze_from_sentence, lines 155-170: <<>> stands for None
generate_cloze_from_sentence(s) ==
    IF s.word = "" THEN <<>>
    ELSE <<[question |-> <<s.text, "_____">>, answer |-> s.word]>>

\* lines 192-196: the loop over qa_by_lines; returned is set when the loop
\* executes `return cards`
RECURSIVE AppendQA(_, _, _)
AppendQA(qas, cards, max_cards) ==
    IF qas = <<>> THEN [cards |-> cards, returned |-> FALSE]
    ELSE LET cs == Append(cards, NewCard(Len(cards) + 1, qas[1].question, qas[1].answer))
         IN  IF Len(cs) >= max_cards
             THEN [cards |-> cs, returned |-> TRUE]
             ELSE AppendQA(Tail(qas), cs, max_cards)

\* lines 198-209: the loop over the sentences, left by `break`
RECURSIVE AppendCloze(_, _, _)
AppendCloze(sentences, cards, max_cards) ==
    IF sentences = <<>> THEN cards
    ELSE LET cloze == generate_cloze_from_sentence(sentences[1])
         IN  IF cloze = <<>>
             THEN AppendCloze(Tail(sentences), cards, max_cards)
             ELSE LET cs == Append(cards, NewCard(Len(cards) + 1,
                                                  cloze[1].question, cloze[1].answer))
                  IN  IF Len(cs) >= max_cards THEN cs
                      ELSE AppendCloze(Tail(sentences), cs, max_cards)

auto_generateOffByOne(text, max_cards, method) ==
    LET byLines == IF method = "qa"
                   THEN AppendQA(generate_qa_from_text_by_lines(text.lines), <<>>, max_cards + 1)
                   ELSE [cards |-> <<>>, returned |-> FALSE]
    IN  IF byLines.returned THEN byLines.cards
        ELSE AppendCloze(text.sentences, byLines.cards, max_cards + 1)

\* auto_generate_cards_from_text, lines 188-210; uuid4 ids are numbered in
\* the order the cards are made
auto_generate_cards_from_text(text, max_cards, method) ==
    LET byLines == IF method = "qa"
                   THEN AppendQA(generate_qa_from_text_by_lines(text.lines), <<>>, max_cards)
                   ELSE [cards |-> <<>>, returned |-> FALSE]
    IN  IF byLines.returned THEN byLines.cards
        ELSE AppendCloze(text.sentences, byLines.cards, max_cards)

\* sequences over S of length at most n
SeqsUpTo(S, n) == UNION { [1 .. k -> S] : k \in 0 .. n }

InitGenerate ==
    /\ gen \in [lines : SeqsUpTo(LineKinds, MaxLines),
                sentences : SeqsUpTo(SentenceKinds, MaxSentences),
                max_cards : 1 .. MaxGenerate,
                method : {"cloze", "qa"},
                qa : {<<>>}, cards : {<<>>}, done : {FALSE}]
    /\ AppIdle
    /\ SchedulerIdle

\* one call of auto_generate_cards_from_text
Generate ==
    /\ ~gen.done
    /\ gen' = [gen EXCEPT
                 !.qa = generate_qa_from_text_by_lines(gen.lines),
                 !.cards = auto_generate_cards_from_text(
                              [lines |-> gen.lines, sentences |-> gen.sentences],
                              gen.max_cards, gen.method),
                 !.done = TRUE]
    /\ UNCHANGED <<smVars, appVars>>

NextGenerate == Generate

SpecGenerate == InitGenerate /\ [][NextGenerate]_vars

---------------------------------------------------------------------------
(* Claims about the scheduler, checked under SpecSM2 *)

Graded == grades # <<>>
LastGrade == grades[Len(grades)]

\* C1: after every grading event, recognised grade or not, and whatever the
\* ease_factor was before it, the card's ease_factor is at least 1.3.
C1_EaseAtLeastFloor == Graded => card.ease_factor >= 130

\* the floor acted: the formula's result was below 1.3, from an ease_factor
\* that was itself below 1.3 or not
C1_Witness ==
    /\ Graded
    /\ LastGrade = 1
    /\ before.ease_factor < 130 + 32
    /\ card.ease_factor = 130
    /\ Len(grades) >= 2

\* C2: after any grading event the card's interval is at least 1, for fresh
\* cards, graded cards and cards loaded with any non-negative interval and
\* repetitions.
C2_IntervalAtLeastOne == Graded => card.interval >= 1

\* C3: a grading event with user grade 1 sets repetitions to 0 and interval
\* to 1, whatever the card's interval, repetitions, ease_factor and history
\* were.
C3_GradeOneResets ==
    (Graded /\ LastGrade = 1) => (card.repetitions = 0 /\ card.interval = 1)

C3_Witness ==
    /\ Graded
    /\ LastGrade = 1
    /\ before.repetitions >= 3
    /\ before.interval > 6
    /\ before.history # <<>>
    /\ card.repetitions = 0
    /\ card.interval = 1

\* C5: from a fresh card, three grade=3 events give interval 1 and
\* repetitions 1, then interval 6 and repetitions 2, then interval
\* ceil(6 * E), E being the ease_factor after the second event.
C5_ThreeGoodGrades ==
    start = NewCard(1, "Q", "A") =>
        /\ grades = <<3>> => (card.interval = 1 /\ card.repetitions = 1)
        /\ grades = <<3, 3>> => (card.interval = 6 /\ card.repetitions = 2)
        /\ grades = <<3, 3, 3>> =>
              /\ before.interval = 6
              /\ 100 * (card.interval - 1) < 6 * before.ease_factor
              /\ 6 * before.ease_factor <= 100 * card.interval

C5_Witness ==
    /\ start = NewCard(1, "Q", "A")
    /\ grades = <<3, 3, 3>>
    /\ before.ease_factor = 270
    /\ card.interval = 17

\* C6: a grade outside {1,2,3} is handled as internal quality 3: a success
\* (repetitions incremented, interval by the success rule), and the history
\* record appended carries quality 3 and the original grade.
C6_UnknownGradeIsQualityThree ==
    (Graded /\ LastGrade \notin {1, 2, 3}) =>
        /\ card.repetitions = before.repetitions + 1
        /\ card.repetitions = 1 => card.interval = 1
        /\ card.repetitions = 2 => card.interval = 6
        /\ card.repetitions > 2 =>
              /\ 100 * (card.interval - 1) < before.interval * before.ease_factor
              /\ before.interval * before.ease_factor <= 100 * card.interval
        /\ Len(card.history) = Len(before.history) + 1
        /\ card.history[Len(card.history)].q = 3
        /\ card.history[Len(card.history)].user_grade = LastGrade

C6_Witness ==
    /\ Graded
    /\ LastGrade = 4
    /\ card.repetitions = 3
    /\ card.history[Len(card.history)] = [date |-> Today, q |-> 3, user_grade |-> 4]

\* C7: each grading event adds 0.1 - (5-q)*(0.08 + (5-q)*0.02) to the
\* ease_factor (grade 3: +0.10, grade 2: 0, grade 1: -0.32; quality 3:
\* -0.14), then raises the result to 1.3 if it is below; there is no upper
\* bound.
C7_EaseStep ==
    Graded =>
        LET d == CASE LastGrade = 3 -> 10
                   [] LastGrade = 2 -> 0
                   [] LastGrade = 1 -> -32
                   [] OTHER -> -14
        IN  card.ease_factor = Max(130, before.ease_factor + d)

\* three grade=3 events in a row from an ease_factor of 4.0: 4.3
C7_Witness ==
    /\ grades = <<3, 3, 3>>
    /\ start.ease_factor = 400
    /\ card.ease_factor = 430

---------------------------------------------------------------------------
(* Claims about the application, checked under Spec and SpecWriteFails *)

\* the cards a run gets from load_cards for a category file
View(f) == load_cards(f, {})
Histories(f) == [i \in 1 .. Len(View(f)) |-> View(f)[i].history]

CountIn(seq, x) == Cardinality({ i \in 1 .. Len(seq) : seq[i] = x })
\* every element of a occurs in b at least as often as in a
SubBagOf(a, b) == \A i \in 1 .. Len(a) : CountIn(a, a[i]) <= CountIn(b, a[i])

GradeStep == \E g \in 1 .. 3 : ClickGrade(g) \/ ClickGradeWriteFails(g)

\* C4: a card's history is append-only.  A grading event appends exactly one
\* record at the end of one card's history and leaves the earlier records
\* and every other card's history as they were, so the run that follows the
\* grading event finds the history one record longer; a delete only takes
\* whole cards away; no other run (selection, reveal, edit, add, duplicate,
\* import, save, reload) loses or changes a history.
C4_HistoryAppendOnly ==
    [][ LET old == Histories(file)
            new == Histories(file')
        IN  IF GradeStep
            THEN /\ Len(new) = Len(old)
                 /\ \E i \in 1 .. Len(old) :
                      /\ Len(new[i]) = Len(old[i]) + 1
                      /\ SubSeq(new[i], 1, Len(old[i])) = old[i]
                      /\ \A j \in 1 .. Len(old) : j # i => new[j] = old[j]
            ELSE IF ClickDelete
            THEN SubBagOf(new, old)
            ELSE SubBagOf(old, new) ]_vars

\* C8: once a card is presented it stays the presented card in every run
\* that leaves the store as it is (a plain rerun, the reveal), until a grade
\* is submitted, also for cards loaded from records without an id.
C8_PinnedUntilGraded ==
    [][ (~pending /\ shown # 0 /\ file' = file) => shown' = shown ]_vars

\* C9: presenting a card and revealing its answer without grading changes
\* no card and does not rewrite the category file.
C9_RevealChangesNothing ==
    [][ (Rerun \/ ClickShow) => (file' = file /\ View(file') = View(file)) ]_vars

\* the answer of a graded card is on display, nothing was rewritten
C9_Witness ==
    /\ ~pending
    /\ show_answer
    /\ shown # 0
    /\ Len(View(file)) = 2
    /\ View(file)[shown].history # <<>>

\* C10: when load_cards fails on the category file, no later run removes or
\* alters a record persisted in that file.
C10_ReadFailureKeepsData ==
    [][ LoadFails(file) =>
          \A i \in 1 .. Len(file.items) :
             \E j \in 1 .. Len(file'.items) : file'.items[j] = file.items[i] ]_vars

---------------------------------------------------------------------------
(* Claims about the legacy file, checked under SpecLegacy *)

\* C11: when no category file exists but flashcards.json does, the
\* application offers the migration (and taking it makes the legacy cards
\* the cards of category "default").
C11_MigrationOffered ==
    (legacy /\ ~FileExists(file) /\ ~pending) => MigrationOffered

---------------------------------------------------------------------------
(* Claims about import, checked under Spec *)

\* the uploaded records the import is to accept, in their order
Accepted(data) ==
    SelectSeq(data.items,
              LAMBDA e : "question" \in DOMAIN e.value /\ "answer" \in DOMAIN e.value)

\* the cards a and b agree on every field but the id
SameButId(a, b) == [a EXCEPT !.id = NoneId] = [b EXCEPT !.id = NoneId]

---------------------------------------------------------------------------
(* Claims about card identity *)

\* C13: in a store that started empty, the ids of the cards are pairwise
\* distinct after any sequence of add, generation, duplication, import, edit
\* and delete.
C13_IdsDistinct ==
    \A i, j \in 1 .. Len(View(file)) :
        i # j => View(file)[i].id # View(file)[j].id

\* C14: a card's id and created_at never change while the card is in the
\* store.  Every card a run would load now is, with the same id and the same
\* created_at, among the cards a run loads after any step that is not a
\* delete: a reload, a reveal, a grading event, an edit, a save; also when
\* the card's persisted record has no id or created_at field.
C14_IdentityKept ==
    [][ ~ClickDelete =>
          \A i \in 1 .. Len(Loaded) :
             \E j \in 1 .. Len(Loaded') :
                /\ Loaded'[j].id = Loaded[i].id
                /\ Loaded'[j].created_at = Loaded[i].created_at ]_vars

---------------------------------------------------------------------------
(* Claims about persistence *)

\* the lists of Card objects the handlers of a run that starts in this state
\* hold when they call save_cards: the list as loaded, sorted by tab2, with
\* one card graded, with a new card appended
InMemoryLists ==
    LET cs == Loaded
    IN  {cs}
        \cup { Tab2Sort(cs, view) : view \in Views }
        \cup { [cs EXCEPT ![i] = sm2_update(@, g)] : i \in 1 .. Len(cs), g \in 1 .. 3 }
        \cup { Append(cs, NewCard(Uuid4(UsedIds \cup CardIds(cs)), q, "b")) :
                 q \in InputTexts \ {""} }

\* C15: round trip.  For every list of cards the application holds in
\* memory, load_cards of what save_cards wrote is a list of the same length
\* and order whose cards are equal field for field.
C15_RoundTrip ==
    \A cs \in InMemoryLists : load_cards(save_cards(cs), UsedIds) = cs

\* a run holding two cards, one of them graded twice
C15_Witness ==
    /\ ~pending
    /\ Len(Loaded) = 2
    /\ \E i \in 1 .. 2 : Len(Loaded[i].history) = 2

\* C16: after a grade button whose save fails, the session goes on with the
\* graded card as sm2_update left it: the list the following run operates
\* on holds that card with its updated interval, repetitions, ease_factor,
\* due_date and history.
C16_GradeKeptAfterFailedSave ==
    [][ (\E g \in 1 .. 3 : ClickGradeWriteFails(g))
        => /\ shown' \in 1 .. Len(Loaded')
           /\ \E g \in 1 .. 3 : Loaded'[shown'] = sm2_update(Loaded[shown'], g) ]_vars

---------------------------------------------------------------------------
(* Claims about selection, checked under Spec *)

\* C17: in weighted selection every card of the category is eligible
\* whatever its due_date, and of any two cards of the pool the one with the
\* lower ease_factor has a weight at least as large as the other's.
C17_LowerEaseWeighsMore ==
    LET cs == Loaded
    IN  /\ \A i \in 1 .. Len(cs) : Weight(cs[i]) > 0
        /\ \A i, j \in 1 .. Len(cs) :
             cs[i].ease_factor < cs[j].ease_factor => Weight(cs[i]) >= Weight(cs[j])

\* C17 as amended: the same, except for a pair in which the card with the
\* lower ease_factor has a history and the other has none; a card with
\* ease_factor 1.3 outweighs a card with ease_factor 4.0 in every case.
C17_LowerEaseWeighsMoreSameBoost ==
    LET cs == Loaded
    IN  /\ \A i \in 1 .. Len(cs) : Weight(cs[i]) > 0
        /\ \A i, j \in 1 .. Len(cs) :
             /\ (/\ cs[i].ease_factor < cs[j].ease_factor
                 /\ ~(cs[i].history # <<>> /\ cs[j].history = <<>>))
                => Weight(cs[i]) >= Weight(cs[j])
             /\ (cs[i].ease_factor = EaseFloor /\ cs[j].ease_factor = 400)
                => Weight(cs[i]) > Weight(cs[j])

\* a run has drawn a card from a pool holding a card at 1.3 that was graded
\* and a card at 4.0 that was not
C17_Witness ==
    /\ ~pending
    /\ shown # 0
    /\ \E i, j \in 1 .. Len(Loaded) :
         /\ Loaded[i].ease_factor = EaseFloor
         /\ Loaded[i].history # <<>>
         /\ Loaded[j].ease_factor = 400
         /\ Loaded[j].history = <<>>

---------------------------------------------------------------------------
(* Claims about the card list, checked under Spec *)

---------------------------------------------------------------------------
(* Claims about automatic generation, checked under SpecGenerate *)

\* C19: auto_generate_cards_from_text returns at most max_cards cards, for
\* both methods, also when the Q/A method goes on to cloze generation to
\* fill the remainder.
C19_AtMostMaxCards ==
    gen.done => Len(gen.cards) <= gen.max_cards

\* the Q/A method found fewer than max_cards seeds and the sentences offered
\* more cloze cards than the remainder
C19_Witness ==
    /\ gen.done
    /\ gen.method = "qa"
    /\ gen.qa # <<>>
    /\ Len(gen.qa) < gen.max_cards
    /\ Len(gen.qa) + Len(SelectSeq(gen.sentences, LAMBDA s : s.word # "")) > gen.max_cards
    /\ Len(gen.cards) = gen.max_cards

\* a line that ends the continuation of a seed: a new seed, or a line of
\* 200 characters or more
Disqualifying(l) == IsSeed(l) \/ l.len >= LongLine

\* the places of the seed lines, in order
SeedPlaces(lines) ==
    SelectSeq([i \in 1 .. Len(lines) |-> i], LAMBDA i : IsSeed(lines[i]))

\* how many of the (at most 3) lines behind line i come before the first
\* disqualifying line
Continuations(lines, i) ==
    CHOOSE n \in 0 .. 3 :
        /\ i + n <= Len(lines)
        /\ \A k \in 1 .. n : ~Disqualifying(lines[i + k])
        /\ n < 3 /\ i + n < Len(lines) => Disqualifying(lines[i + n + 1])

\* C20: the answer of a seed line is the text behind its colon followed by
\* the lines that come next, at most 3 of them, up to the first line that is
\* a new seed or has 200 characters or more: no line behind such a line is
\* appended.
C20_LookaheadStopsAtFirstDisqualifying ==
    gen.done =>
        \A k \in 1 .. Len(gen.qa) :
            LET i == SeedPlaces(gen.lines)[k]
            IN  gen.qa[k].answer =
                    <<gen.lines[i].right>>
                    \o [n \in 1 .. Continuations(gen.lines, i) |-> gen.lines[i + n].text]

---------------------------------------------------------------------------
(* Claims about delete, checked under SpecFresh *)

\* C21: deleting a card from the card list removes exactly that one card:
\* the list after the delete is one card shorter, and every card it holds
\* was in the list before, unchanged, as often as before or once less.
C21_DeleteRemovesOneCard ==
    [][ ClickDelete =>
          /\ Len(View(file')) = Len(View(file)) - 1
          /\ SubBagOf(View(file'), View(file)) ]_vars

---------------------------------------------------------------------------
(* Claims about the review session, checked under Spec *)

\* C22: a grade is submitted only for the pinned card and only after its
\* answer was revealed.  Whenever a step adds a record to a history, the
\* answer was on display (show_answer), a card of the list was pinned, the
\* list after the step is the list before it with sm2_update applied to that
\* card alone, saved, and the pin and show_answer are cleared.
C22_GradeOnlyPinnedAndRevealed ==
    [][ Reviews(View(file')) > Reviews(View(file)) =>
          LET i == FirstWithId(View(file), current_card_id)
          IN  /\ show_answer
              /\ current_card_id # NoneId
              /\ i # 0
              /\ \E g \in 1 .. 3 :
                   View(file') = [View(file) EXCEPT ![i] = sm2_update(@, g)]
              /\ current_card_id' = NoneId
              /\ show_answer' = FALSE ]_vars

\* a grade has just been saved for one of two cards; the other was never
\* graded
C22_Witness ==
    /\ pending
    /\ current_card_id = NoneId
    /\ ~show_answer
    /\ shown # 0
    /\ Len(View(file)) = 2
    /\ Len(View(file)[shown].history) = 1
    /\ \E j \in 1 .. 2 : j # shown /\ View(file)[j].history = <<>>

---------------------------------------------------------------------------
(* Claims about repetitions, checked under SpecSM2 *)

\* the number of records at the end of a history whose q is at least 3
RECURSIVE TrailingSuccesses(_)
TrailingSuccesses(history) ==
    IF history = <<>> THEN 0
    ELSE IF history[Len(history)].q >= 3
         THEN 1 + TrailingSuccesses(SubSeq(history, 1, Len(history) - 1))
         ELSE 0

\* C23: for a card created fresh (repetitions 0, empty history) and changed
\* only by grading events, repetitions equals the number of consecutive
\* most-recent history records whose q is at least 3.
C23_RepetitionsCountTrailingSuccesses ==
    (start.repetitions = 0 /\ start.history = <<>> /\ start = NewCard(start.id, start.question, start.answer))
    => card.repetitions = TrailingSuccesses(card.history)

\* a fresh card graded three times: a failure in the middle, a success last
C23_Witness ==
    /\ start = NewCard(1, "Q", "A")
    /\ Len(card.history) = 3
    /\ card.history[1].q >= 3
    /\ card.history[2].q < 3
    /\ card.history[3].q >= 3

====
